---- MODULE Spec2Model ----
(***************************************************************************)
(* Model of the hierarchical suspend/resume StateManager of               *)
(* src/StateManager.h: a heap of FunctionState frames linked by           *)
(* parentState/childState pointers plus the currentState pointer, and the *)
(* public operations begin / setState / getState / suspend / end /        *)
(* getStatus / resetDelay / init working on it.                           *)
(***************************************************************************)
EXTENDS Integers, FiniteSets, Sequences, TLC

\* ------------------------------------------------------------------ bounds
\* Number of heap cells that can hold a FunctionState.
MaxFrames == 3
\* Number of times the millisecond clock advances.
MaxTicks == 2
\* Number of heap cells the specification of the scratch slots uses.
MaxScratchFrames == 2

\* --------------------------------------------------------------- constants
stepSuccess == 101
stepFailure == 102
NULL == 0

\* unsigned long and uint32_t are 32 bits wide.  A 32-bit unsigned value u is held
\* as the integer with the same bit pattern read in two's complement: u itself
\* below 2^31 and u - 2^32 from 2^31 on, so that 0 is 0 and addition wraps
\* modulo 2^32.
MaxInt32 == (2^30 - 1) + 2^30
MinInt32 == (-MaxInt32) - 1
Add32(a, b) ==
  IF a > 0 /\ b > 0 /\ a > MaxInt32 - b THEN (a - MaxInt32 - 1) + (b - MaxInt32 - 1)
  ELSE IF a < 0 /\ b < 0 /\ a < MinInt32 - b THEN (a + MaxInt32 + 1) + (b + MaxInt32 + 1)
  ELSE a + b

FrameIds == 1..MaxFrames
FunctionNames == {"A", "B", "C"}
\* Application step numbers handed to begin and suspend.
Steps == {1, 2}
\* The step suspend continues at.
SuspendSteps == {2}
\* Delays handed to suspend.
Delays == {0, 500}
\* The clock advances by the delay asked for.
TickStep == CHOOSE d \in Delays : d # 0
\* The clock value at construction: one tick before the 32-bit wrap-around
\* (2^32 - TickStep).
ClockStart == 0 - TickStep
\* The four scratch slots and the values written to them.
IntSlots == {"int1", "uint1", "ulong1"}
Slots == IntSlots \cup {"string1"}
SlotValues(slot) == IF slot = "string1" THEN {"", "x"} ELSE {0, 1}
\* The slots the body of each function keeps its variables in.
SlotsUsedBy(functionName) ==
  CASE functionName = "A" -> {"int1", "uint1"}
    [] functionName = "B" -> {"ulong1", "string1"}
    [] functionName = "C" -> {"int1", "string1"}
    [] OTHER -> {"int1"}

VARIABLES
  heap,          \* heap cell -> FunctionState stored there
  alloc,         \* the heap cells holding a live (new'ed, not deleted) FunctionState
  currentState,  \* StateManager::currentState, NULL or a heap cell
  now,           \* millis()
  ret,           \* value returned by the last call (bool as 1/0)
  local,         \* the caller's variable the last getState wrote through its reference
  call,          \* the last call made and the branches of the code it ran
  fault,         \* "none", or the kind of invalid pointer the last call dereferenced
  encodedMessage \* Message::encodedMessage, a sequence of hex digits

vars == <<heap, alloc, currentState, now, ret, local, call, fault, encodedMessage>>

\* A FunctionState as its default member initialisers leave it.
NewFrame ==
  [functionName |-> "", parentState |-> NULL, childState |-> NULL,
   currentStep |-> 0, nextStep |-> 0, delayUntil |-> 0,
   int1 |-> 0, uint1 |-> 0, ulong1 |-> 0, string1 |-> ""]

\* No getState call yet.
NoLocal == [slot |-> "", value |-> 0]

\* The memory a call works on: it is threaded through the private helpers.
Mem == [heap |-> heap, alloc |-> alloc, cur |-> currentState, path |-> {}, fault |-> "none"]

\* Dereferencing pointer p: a null or a deleted pointer is a fault.
Access(m, p) ==
  IF m.fault # "none" THEN m
  ELSE IF p = NULL THEN [m EXCEPT !.fault = "null"]
  ELSE IF p \notin m.alloc THEN [m EXCEPT !.fault = "freed"]
  ELSE m

Visit(m, tag) == [m EXCEPT !.path = @ \cup {tag}]

\* operator new: the lowest free heap cell.
NewAddr(a) == CHOOSE p \in FrameIds \ a : \A q \in FrameIds \ a : p <= q

\* delete p: the cell is released; only p itself, FunctionState has no destructor.
Delete(m, p) == [m EXCEPT !.alloc = @ \ {p}, !.heap[p] = NewFrame]

\* A createState that makes the new frame its own parent.
createStateOwnParent(m, functionName, firstStep, parentState) ==
  LET p == NewAddr(m.alloc)
  IN [m EXCEPT !.alloc = @ \cup {p},
               !.heap[p] = [NewFrame EXCEPT !.functionName = functionName,
                                            !.currentStep = firstStep,
                                            !.parentState = p]]

\* A createState that leaves the new frame's currentStep at its initialiser.
createStateAtNoStep(m, functionName, firstStep, parentState) ==
  LET p == NewAddr(m.alloc)
  IN [m EXCEPT !.alloc = @ \cup {p},
               !.heap[p] = [NewFrame EXCEPT !.functionName = functionName,
                                            !.parentState = parentState]]

createState(m, functionName, firstStep, parentState) ==
  LET p == NewAddr(m.alloc)
  IN [m EXCEPT !.alloc = @ \cup {p},
               !.heap[p] = [NewFrame EXCEPT !.functionName = functionName,
                                            !.currentStep = firstStep,
                                            !.parentState = parentState]]

\* A popState that applies the next step at once, child or no child.
nothingToWaitForAnyone(frame, nextStep0) == nextStep0 # 0
\* popState: "if current state has no child, proceed to next step".
nothingToWaitFor(frame, nextStep0) == nextStep0 # 0 /\ frame.childState = NULL

\* A popState that records the steps and stays on the frame.
popStateNoAscent(m, currentStep0, nextStep0) ==
  IF m.fault # "none" \/ m.cur = NULL THEN m
  ELSE [m EXCEPT !.heap[m.cur].currentStep = currentStep0,
                 !.heap[m.cur].nextStep = nextStep0,
                 !.path = @ \cup {"root"}]

popState(m, currentStep0, nextStep0) ==
  IF m.fault # "none" THEN m
  ELSE IF m.cur = NULL THEN m
  ELSE LET a == Access(m, m.cur) IN
  IF a.fault # "none" THEN a
  ELSE
    LET c  == m.cur
        f1 == [m.heap[c] EXCEPT !.currentStep = currentStep0, !.nextStep = nextStep0]
        go == nothingToWaitFor(f1, nextStep0)
        f2 == IF go THEN [f1 EXCEPT !.currentStep = nextStep0, !.nextStep = 0] ELSE f1
        up == f2.parentState # NULL
    IN [m EXCEPT !.heap[c] = f2,
                 !.cur = IF up THEN f2.parentState ELSE c,
                 !.path = @ \cup (IF go THEN {"next"} ELSE {}) \cup (IF up THEN {"pop"} ELSE {"root"})]

\* A transition check that never moves the child's delay up.
childNeverRequestedDelay(frame) == FALSE
\* transitionState: the child asked for a delay.
childRequestedDelay(frame) == frame.delayUntil # 0
\* A transition check that never finds the child finished.
childNeverFinished(frame) == FALSE
\* transitionState: the child has finished.
childFinished(frame) == frame.currentStep = stepSuccess \/ frame.currentStep = stepFailure
\* A transition check that takes a failed child for a successful one.
childNeverFailed(frame) == FALSE
\* transitionState: the child has failed.
childFailed(frame) == frame.currentStep = stepFailure

transitionState(m) ==
  LET a == Access(m, m.cur) IN
  IF a.fault # "none" THEN a
  ELSE
    LET c == m.cur
        childState == m.heap[c].childState
    IN
    IF childState = NULL THEN Visit(m, "nochild")
    ELSE LET b == Access(m, childState) IN
    IF b.fault # "none" THEN b
    ELSE
      LET bubble == childRequestedDelay(m.heap[childState])
          m1 == IF bubble
                  THEN [m EXCEPT !.heap[c].delayUntil = m.heap[childState].delayUntil,
                                 !.heap[childState].delayUntil = 0,
                                 !.path = @ \cup {"bubble"}]
                  ELSE m
      IN
      IF ~childFinished(m1.heap[childState]) THEN Visit(m1, "pending")
      ELSE
        LET m2 == IF childFailed(m1.heap[childState])
                    THEN [m1 EXCEPT !.heap[c].currentStep = stepFailure,
                                    !.path = @ \cup {"failed"}]
                    ELSE [m1 EXCEPT !.heap[c].currentStep = m1.heap[c].nextStep,
                                    !.heap[c].nextStep = 0,
                                    !.path = @ \cup {"succeeded"}]
            m3 == Delete(m2, childState)
        IN [m3 EXCEPT !.heap[c].childState = NULL]

\* A destroy that leaves currentState pointing at the frame it deleted.
destroyKeepPointer(m) ==
  IF m.cur = NULL THEN Visit(m, "empty") ELSE Delete(m, m.cur)

destroy(m) ==
  IF m.cur = NULL THEN Visit(m, "empty")
  ELSE LET a == Access(m, m.cur) IN
  IF a.fault # "none" THEN a
  ELSE
    LET c == m.cur
        childState == m.heap[c].childState
        m1 == IF childState # NULL
                THEN LET d == Delete(Access(m, childState), childState)
                     IN [d EXCEPT !.heap[c].childState = NULL, !.path = @ \cup {"child"}]
                ELSE m
        m2 == IF m1.fault # "none" THEN m1 ELSE Delete(m1, c)
    IN [m2 EXCEPT !.cur = NULL]

\* A begin that never recognises the function a frame belongs to.
neverSameFunction(frame, functionName) == FALSE
\* begin: the frame belongs to the function called.
sameFunction(frame, functionName) == frame.functionName = functionName

\* The body of begin, up to its return statement.
beginBody(m, functionName, firstStep) ==
  IF m.cur = NULL
    THEN LET n == createState(m, functionName, firstStep, NULL)
         IN [n EXCEPT !.cur = NewAddr(m.alloc), !.path = @ \cup {"root"}]
  ELSE LET a == Access(m, m.cur) IN
  IF a.fault # "none" THEN a
  ELSE IF sameFunction(m.heap[m.cur], functionName) THEN Visit(m, "resume")
  ELSE
    LET c == m.cur
        childState == m.heap[c].childState
        b == IF childState = NULL THEN m ELSE Access(m, childState)
    IN
    IF b.fault # "none" THEN b
    ELSE IF childState = NULL \/ ~sameFunction(m.heap[childState], functionName)
      THEN LET m1 == IF childState # NULL THEN Visit(Delete(m, childState), "delete") ELSE m
               p  == NewAddr(m1.alloc)
               m2 == createState(m1, functionName, firstStep, c)
           IN [m2 EXCEPT !.heap[c].childState = p, !.cur = p, !.path = @ \cup {"create"}]
      ELSE [m EXCEPT !.cur = childState, !.path = @ \cup {"descend"}]

\* What begin(functionName, firstStep) returns when called on memory m:
\* the currentStep of the frame it makes current.
beginReturns(m, functionName, firstStep) ==
  LET b == beginBody(m, functionName, firstStep)
      a == Access(b, b.cur)
  IN IF a.fault = "none" THEN a.heap[a.cur].currentStep ELSE 0

\* Whether begin needs a new heap cell, and whether the heap has one.
beginAllocates(functionName) ==
  \/ currentState = NULL
  \/ /\ currentState \in alloc
     /\ heap[currentState].functionName # functionName
     /\ LET childState == heap[currentState].childState
        IN childState = NULL \/ (childState \in alloc /\ heap[childState].functionName # functionName)

roomAfterBegin ==
  \/ alloc # FrameIds
  \/ currentState \in alloc /\ heap[currentState].childState \in alloc

\* The cells a chain of parentState/childState pointers starting at pointer cur
\* leads to.  currentState is the only pointer the StateManager holds, so the
\* content of any other cell can never be read or written again.
RECURSIVE Closure(_, _, _)
Closure(m, r, n) ==
  LET live == r \cap m.alloc
      more == r \cup {m.heap[p].parentState : p \in live} \cup {m.heap[p].childState : p \in live}
  IN IF n = 0 \/ more = r THEN r ELSE Closure(m, more, n - 1)
Reach(m) == Closure(m, {m.cur}, MaxFrames) \ {NULL}

\* A leaked cell stays allocated for good; its content is no longer tracked.
Leak(m) ==
  LET lost == m.alloc \ Reach(m)
  IN IF lost = {} THEN m.heap
     ELSE [p \in FrameIds |-> IF p \in lost THEN NewFrame ELSE m.heap[p]]

\* Commit the memory a call leaves behind; a faulting call leaves the rest untouched.
Commit(m, op, result) ==
  IF m.fault # "none"
    THEN /\ fault' = m.fault
         /\ call' = [op |-> op, path |-> {}]
         /\ UNCHANGED <<heap, alloc, currentState, ret, encodedMessage>>
    ELSE /\ heap' = Leak(m)
         /\ alloc' = m.alloc
         /\ currentState' = m.cur
         /\ call' = [op |-> op, path |-> m.path]
         /\ ret' = result
         /\ UNCHANGED <<fault, encodedMessage>>

Init ==
  /\ heap = [p \in FrameIds |-> NewFrame]
  /\ alloc = {}
  /\ currentState = NULL
  /\ now = ClockStart
  /\ ret = 0
  /\ local = NoLocal
  /\ call = [op |-> "new", path |-> {}]
  /\ fault = "none"
  /\ encodedMessage = <<>>

\* millis() advances.
Tick ==
  /\ fault = "none"
  /\ Add32(now, 0 - ClockStart) < MaxTicks * TickStep
  /\ now' = Add32(now, TickStep)
  /\ UNCHANGED <<heap, alloc, currentState, ret, local, call, fault, encodedMessage>>

begin(functionName, firstStep) ==
  /\ fault = "none"
  /\ beginAllocates(functionName) => roomAfterBegin
  /\ LET m == beginBody(Mem, functionName, firstStep)
         a == Access(m, m.cur)
     IN Commit(a, "begin", IF a.fault = "none" THEN a.heap[a.cur].currentStep ELSE 0)
  /\ UNCHANGED <<now, local>>

\* A suspend that reports success whatever the step of the frame.
suspendAlwaysTrue(frame) == 1
\* suspend: false (0) when the frame current after the transition check is at
\* FAILURE, true (1) otherwise.
suspendResult(frame) == IF frame.currentStep = stepFailure THEN 0 ELSE 1

\* A deadline that leaves out the clock.
deadlineWithoutClock(clock, delay) == delay
\* suspend: the deadline of a delay asked for at clock value clock.
deadline(clock, delay) == Add32(clock, delay)

suspend(nextStep, delay) ==
  /\ fault = "none"
  /\ LET a  == Access(Mem, currentState)
         m1 == IF a.fault # "none" THEN a
               ELSE popState(Mem, heap[currentState].currentStep, nextStep)
         m2 == IF m1.fault = "none" /\ delay # 0
                 THEN [m1 EXCEPT !.heap[m1.cur].delayUntil = deadline(now, delay),
                                 !.path = @ \cup {"delay"}]
                 ELSE m1
         m3 == IF m2.fault # "none" THEN m2 ELSE transitionState(m2)
     IN Commit(m3, "suspend",
               IF m3.fault = "none" THEN suspendResult(m3.heap[m3.cur]) ELSE 1)
  /\ UNCHANGED <<now, local>>

\* suspend(): continue later at the same step.
suspendSame ==
  /\ fault = "none"
  /\ IF currentState = NULL
       THEN Commit(Access(Mem, currentState), "suspend", 0) /\ UNCHANGED <<now, local>>
       ELSE suspend(heap[currentState].currentStep, 0)

end(status) ==
  /\ fault = "none"
  /\ LET m1 == popState(Mem, IF status THEN stepSuccess ELSE stepFailure, 0)
         m2 == transitionState(m1)
     IN Commit(m2, "end", IF status THEN 1 ELSE 0)
  /\ UNCHANGED <<now, local>>

init ==
  /\ fault = "none"
  /\ Commit(destroy(Mem), "init", ret)
  /\ UNCHANGED <<now, local>>

getStatus ==
  /\ fault = "none"
  /\ IF currentState = NULL
       THEN Commit(Mem, "getStatus", 0)
       ELSE LET a == Access(Mem, currentState)
            IN Commit(a, "getStatus", IF a.fault = "none" THEN heap[currentState].currentStep ELSE 0)
  /\ UNCHANGED <<now, local>>

resetDelay ==
  /\ fault = "none"
  /\ LET a == Access(Mem, currentState)
     IN IF a.fault # "none" THEN Commit(a, "resetDelay", 0)
        ELSE Commit([a EXCEPT !.heap[currentState].delayUntil = 0], "resetDelay",
                    heap[currentState].delayUntil)
  /\ UNCHANGED <<now, local>>

\* A setState whose integer overloads store into one another's slot.
storeWrongSlot(frame, slot, value) ==
  CASE slot = "int1" -> [frame EXCEPT !.uint1 = value]
    [] slot = "uint1" -> [frame EXCEPT !.ulong1 = value]
    [] slot = "ulong1" -> [frame EXCEPT !.int1 = value]
    [] OTHER -> [frame EXCEPT ![slot] = value]
\* setState: the overload for the slot stores the value in that slot.
storeSlot(frame, slot, value) == [frame EXCEPT ![slot] = value]

setState(slot, value) ==
  /\ fault = "none"
  /\ LET a == Access(Mem, currentState)
     IN IF a.fault # "none" THEN Commit(a, "setState", ret)
        ELSE Commit([a EXCEPT !.heap[currentState] = storeSlot(@, slot, value)], "setState", ret)
  /\ UNCHANGED <<now, local>>

getState(slot) ==
  /\ fault = "none"
  /\ LET a == Access(Mem, currentState)
     IN /\ Commit(a, "getState", ret)
        /\ local' = IF a.fault # "none" THEN local
                    ELSE [slot |-> slot, value |-> heap[currentState][slot]]
  /\ UNCHANGED now

\* The engine driven through its steps: nested calls of three functions, each
\* begun at step 1 and suspended to step 2, ended with either status, and reset.
Next ==
  \/ \E f \in FunctionNames : begin(f, 1)
  \/ \E n \in SuspendSteps : suspend(n, 0)
  \/ \E status \in BOOLEAN : end(status)
  \/ init
  \/ getStatus

Spec == Init /\ [][Next]_vars

\* Two functions begun and suspended at either step.
NextBegin ==
  \/ \E f \in {"A", "B"}, s \in Steps : begin(f, s)
  \/ \E n \in Steps : suspend(n, 0)
  \/ suspendSame
  \/ end(TRUE)

SpecBegin == Init /\ [][NextBegin]_vars

\* Two functions suspending with and without a delay while the clock advances.
NextDelay ==
  \/ \E f \in {"A", "B"} : begin(f, 1)
  \/ \E n \in SuspendSteps, d \in Delays : suspend(n, d)
  \/ end(TRUE)
  \/ resetDelay
  \/ Tick

SpecDelay == Init /\ [][NextDelay]_vars

\* The function whose body is running.
CurrentFunction == IF currentState \in alloc THEN heap[currentState].functionName ELSE ""

\* The scratch slots in use by calls that begin, suspend and end, in a heap of
\* MaxScratchFrames cells.
NextScratch ==
  \/ \E f \in FunctionNames : begin(f, 1) /\ Cardinality(alloc') <= MaxScratchFrames
  \/ \E n \in SuspendSteps : suspend(n, 0)
  \/ \E slot \in SlotsUsedBy(CurrentFunction) : \E v \in SlotValues(slot) : setState(slot, v)
  \/ \E slot \in SlotsUsedBy(CurrentFunction) : getState(slot)
  \/ end(TRUE)

SpecScratch == Init /\ [][NextScratch]_vars

\* ---------------------------------------------------------------------------
\* Message: a structured message of fields, encoded as hex digits.

\* An encoded message of 12 bytes takes 24 hex digits.
MAX_BYTES_PER_MESSAGE == 12

Lower == <<"a", "b", "c", "d", "e", "f", "g", "h", "i", "j", "k", "l", "m",
           "n", "o", "p", "q", "r", "s", "t", "u", "v", "w", "x", "y", "z">>
Upper == <<"A", "B", "C", "D", "E", "F", "G", "H", "I", "J", "K", "L", "M",
           "N", "O", "P", "Q", "R", "S", "T", "U", "V", "W", "X", "Y", "Z">>
Digits == <<"0", "1", "2", "3", "4", "5", "6", "7", "8", "9">>

IndexOf(seq, ch) == CHOOSE i \in 1..Len(seq) : seq[i] = ch
Range(seq) == {seq[i] : i \in 1..Len(seq)}

firstLetter == 1
firstDigit == 27

\* The 5-bit code of a character; 0 for a character that cannot be encoded.
encodeLetter(ch) ==
  LET lower == IF ch \in Range(Upper) THEN Lower[IndexOf(Upper, ch)] ELSE ch
  IN IF lower \in Range(Lower) THEN (IndexOf(Lower, lower) - 1) + firstLetter
     ELSE IF ch \in Range(Digits) /\ IndexOf(Digits, ch) <= 5
            THEN (IndexOf(Digits, ch) - 1) + firstDigit
     ELSE 0

\* charAt: the character at a 0-based index, the NUL character past the end.
charAt(name, i) == IF i < Len(name) THEN name[i + 1] ELSE ""

\* A 16-bit value as four hex digits, most significant first.
toHex(value) ==
  LET v == value % 65536
  IN <<v \div 4096, (v \div 256) % 16, (v \div 16) % 16, v % 16>>

\* The message with the first three letters of a name appended, 5 bits each.
addName(msg, name) ==
  LET buffer == [i \in 0..2 |-> IF i <= Len(name) THEN encodeLetter(charAt(name, i)) ELSE 0]
      result == buffer[0] * 1024 + buffer[1] * 32 + buffer[2]
  IN msg \o toHex(result)

\* An add call refuses a field that would take the message past the limit.
addRejects(msg) == Len(msg) + (4 * 2) > MAX_BYTES_PER_MESSAGE * 2

FieldNames == {<<"t", "m", "p">>, <<"H", "m", "d">>, <<"a", "4">>}
IntValues == {0, 255, 0 - 1}
StringValues == {<<"o", "k">>, <<"Z", "9", "x", "y">>}

MessageCall(op, path, result) ==
  /\ call' = [op |-> op, path |-> path]
  /\ ret' = result
  /\ UNCHANGED <<heap, alloc, currentState, now, local, fault>>

addIntField(name, value) ==
  IF addRejects(encodedMessage)
    THEN MessageCall("addIntField", {"toolong"}, 0) /\ UNCHANGED encodedMessage
    ELSE /\ encodedMessage' = addName(encodedMessage, name) \o toHex(value)
         /\ MessageCall("addIntField", {"added"}, 1)

addField(name, value) ==
  IF addRejects(encodedMessage)
    THEN MessageCall("addField", {"toolong"}, 0) /\ UNCHANGED encodedMessage
    ELSE /\ encodedMessage' = addName(addName(encodedMessage, name), value)
         /\ MessageCall("addField", {"added"}, 1)

\* send hands the message to the transceiver, whose sendMessage may fail.
send(sendMessage) ==
  LET msg == encodedMessage
  IN /\ IF Len(msg) = 0 THEN MessageCall("send", {"nothing"}, 0)
        ELSE IF Len(msg) >= MAX_BYTES_PER_MESSAGE * 2 THEN MessageCall("send", {"toolong"}, 0)
        ELSE MessageCall("send", {"sent"}, IF sendMessage THEN 1 ELSE 0)
     /\ UNCHANGED encodedMessage

NextMessage ==
  \/ \E name \in FieldNames, value \in IntValues : addIntField(name, value)
  \/ \E name \in FieldNames, value \in StringValues : addField(name, value)
  \/ \E sendMessage \in BOOLEAN : send(sendMessage)

SpecMessage == Init /\ [][NextMessage]_vars

\* ------------------------------------------------------------------ claims

\* The frames from frame p up to the root, following parentState.
RECURSIVE UpFrom(_, _, _)
UpFrom(h, p, n) ==
  IF p = NULL \/ n = 0 THEN {} ELSE {p} \cup UpFrom(h, h[p].parentState, n - 1)
Ancestors(p) == UpFrom(heap, p, MaxFrames)
\* The frames from frame p down, following childState.
RECURSIVE DownFrom(_, _, _)
DownFrom(h, p, n) ==
  IF p = NULL \/ n = 0 THEN {} ELSE {p} \cup DownFrom(h, h[p].childState, n - 1)
\* Nesting depth of frame p: the root is at depth 0.
Depth(p) == Cardinality(Ancestors(p)) - 1
\* The frames of the chain: those a pointer chain from currentState reaches.
Chain == Reach(Mem) \cap alloc
\* The last call was an ascent that went up to the parent of the frame it left.
Ascended == call.op \in {"suspend", "end"} /\ "pop" \in call.path

\* C1: whenever the transition check consumes a child that ended with
\* end(true), the parent's currentStep afterwards is the nextStep a suspend of
\* that parent named (a step of SuspendSteps, never 0), and the parent's
\* nextStep is cleared.
C1_ParentContinuesAtNamedStep ==
  [][("succeeded" \in call'.path /\ fault' = "none")
       => /\ heap'[currentState'].currentStep = heap[currentState'].nextStep
          /\ heap'[currentState'].currentStep \in SuspendSteps
          /\ heap'[currentState'].nextStep = 0]_vars

\* C2 as stated: after end(false) and its transition check, every ancestor of
\* the failed frame, up to and including the root, has currentStep = FAILURE.
C2_AllAncestorsFailed ==
  (call.op = "end" /\ ret = 0 /\ "pop" \in call.path)
    => \A p \in Ancestors(currentState) : heap[p].currentStep = stepFailure

\* C2 as amended: end(false) by a frame that has a parent leaves that parent
\* current with currentStep = FAILURE whatever nextStep it had pending, deletes
\* the failed frame and unlinks it; the frames above the parent are untouched.
C2_ParentFailed ==
  [][(call'.op = "end" /\ ret' = 0 /\ "pop" \in call'.path)
       => LET failed == currentState
              parent == heap[currentState].parentState
          IN /\ currentState' = parent
             /\ heap'[parent].currentStep = stepFailure
             /\ heap'[parent].childState = NULL
             /\ heap'[parent].nextStep = heap[parent].nextStep
             /\ failed \notin alloc'
             /\ \A q \in Ancestors(parent) \ {parent} : heap'[q] = heap[q]]_vars

\* C2 witness: end(false) two levels below the root has just failed the
\* parent, which had a nextStep pending, while the root still is at its step.
C2_Witness ==
  /\ call.op = "end" /\ ret = 0 /\ "failed" \in call.path
  /\ Depth(currentState) = 1
  /\ heap[currentState].currentStep = stepFailure
  /\ heap[currentState].nextStep # 0
  /\ heap[heap[currentState].parentState].currentStep # stepFailure

\* C3: once a failed child has set a frame's step to FAILURE, the frame's own
\* ascent (suspend with any nextStep, or end(false)) keeps the failure in
\* sight: the frame that is current afterwards has currentStep = FAILURE, so the
\* failure reaches the root and getStatus().
C3_FailureSurvivesAscent ==
  [][(/\ "failed" \in call.path
      /\ fault' = "none"
      /\ \/ call'.op = "suspend"
         \/ call'.op = "end" /\ ret' = 0)
       => heap'[currentState'].currentStep = stepFailure]_vars

\* C4: begin(f, s) on a current frame named f returns that frame's stored
\* currentStep and changes no frame, no link and not the current frame; on an
\* empty engine begin(f, s) creates the root at step s and returns s.
C4_IdempotentResume ==
  [][\A f \in FunctionNames, s \in Steps :
       begin(f, s) =>
         /\ (currentState # NULL /\ heap[currentState].functionName = f)
              => /\ ret' = heap[currentState].currentStep
                 /\ heap' = heap /\ alloc' = alloc /\ currentState' = currentState
         /\ currentState = NULL
              => /\ ret' = s
                 /\ currentState' \in alloc' /\ alloc' \ alloc = {currentState'}
                 /\ heap'[currentState'] = [NewFrame EXCEPT !.functionName = f, !.currentStep = s]]_vars

\* C4 witness: a begin naming another first step has resumed the root, which
\* was created at step 2, and returned the stored step.
C4_Witness ==
  /\ call.op = "begin" /\ "resume" \in call.path
  /\ heap[currentState].parentState = NULL
  /\ heap[currentState].childState = NULL
  /\ heap[currentState].nextStep = 0
  /\ ret = heap[currentState].currentStep
  /\ ret = 2

\* No frame of the chain below the current frame holds a delay.
BelowCurrentNoDelay ==
  \A p \in DownFrom(heap, currentState, MaxFrames) \ {currentState} :
    heap[p].delayUntil = 0

\* C5 as stated, for nesting depth 1: a frame whose parent is the root calls
\* suspend with delay > 0; after that one ascension the root's delayUntil is the
\* deadline computed by that suspend and every other frame holds no delay.
C5_DeadlineReachesRoot ==
  [][\A n \in SuspendSteps, d \in Delays \ {0} :
       (suspend(n, d) /\ currentState # NULL /\ Depth(currentState) = 1)
         => /\ heap'[heap[currentState].parentState].delayUntil = Add32(now, d)
            /\ \A p \in (Chain \cap alloc') \ {heap[currentState].parentState} :
                 heap'[p].delayUntil = 0]_vars

\* C5 as amended, one ascension at a time: (i) suspend with delay > 0 by a
\* frame below the root that holds no delay of its own puts the deadline
\* (clock + delay modulo 2^32) on its parent; (ii) every ascension, by suspend
\* with any step and delay or by end, of a frame below the root that holds a
\* nonzero delayUntil moves exactly that value to its parent and clears it
\* on the frame; (iii) no frame below the current frame ever holds a delay.
\* So a nonzero deadline set from depth d is the root's delayUntil after d
\* ascensions in a row, and every other frame of the chain then holds 0.
C5_DelayBubbles ==
  [][/\ \A n \in SuspendSteps, d \in Delays \ {0} :
          ((/\ currentState # NULL
            /\ heap[currentState].parentState # NULL
            /\ heap[currentState].delayUntil = 0
            /\ call'.op = "suspend"
            /\ suspend(n, d))
             => (/\ currentState' = heap[currentState].parentState
                 /\ heap'[currentState'].delayUntil = Add32(now, d)
                 /\ (currentState \in alloc' => heap'[currentState].delayUntil = 0)))
     /\ ((/\ currentState # NULL
          /\ heap[currentState].parentState # NULL
          /\ heap[currentState].delayUntil # 0
          /\ \/ call'.op = "suspend" /\ \E n \in SuspendSteps, d \in Delays : suspend(n, d)
             \/ call'.op = "end" /\ \E status \in BOOLEAN : end(status))
           => (/\ currentState' = heap[currentState].parentState
               /\ heap'[currentState'].delayUntil = heap[currentState].delayUntil
               /\ (currentState \in alloc' => heap'[currentState].delayUntil = 0)))
     /\ BelowCurrentNoDelay']_vars

\* C5 witness: an ascension that passed no delay of its own has arrived at the
\* root and moved up a deadline its child was holding for a frame below it;
\* no other frame of the chain holds a delay.
C5_Witness ==
  /\ Ascended /\ "bubble" \in call.path /\ "delay" \notin call.path
  /\ heap[currentState].parentState = NULL
  /\ heap[currentState].delayUntil # 0
  /\ Cardinality(Chain) >= 2
  /\ \A p \in Chain \ {currentState} : heap[p].delayUntil = 0

\* C6 as stated: after suspend(n, d) with d > 0 the frame that is then current
\* has delayUntil = clock + d, also when the suspending frame holds a delay.
C6_DelayIsClockPlusDelay ==
  [][\A n \in SuspendSteps, d \in Delays \ {0} :
       (suspend(n, d) /\ currentState # NULL)
         => heap'[currentState'].delayUntil = Add32(now, d)]_vars

\* C6 as amended: after suspend(n, d) with d > 0 the frame that is then current
\* has delayUntil = clock + d modulo 2^32 when the suspending frame is the root
\* or holds delayUntil = 0, and otherwise the delayUntil the suspending frame
\* held, which the transition check moves up over the new deadline.
C6_DelayOrBubbled ==
  [][\A n \in SuspendSteps, d \in Delays \ {0} :
       (currentState # NULL /\ call'.op = "suspend" /\ suspend(n, d))
         => heap'[currentState'].delayUntil =
              IF heap[currentState].parentState # NULL /\ heap[currentState].delayUntil # 0
                THEN heap[currentState].delayUntil
                ELSE Add32(now, d)]_vars

\* C6 witness: suspend with a delay has just ascended from a frame that held
\* a deadline of its own, and the parent holds that one, not clock + delay.
C6_Witness ==
  /\ call.op = "suspend" /\ {"delay", "bubble", "pop"} \subseteq call.path
  /\ heap[currentState].delayUntil # 0
  /\ \A d \in Delays \ {0} : heap[currentState].delayUntil # Add32(now, d)

\* C7 as stated: suspend(n), n # 0, on a current frame without a child sets
\* its currentStep to n and clears its nextStep; on a current frame with an
\* outstanding child it leaves currentStep unchanged and records nextStep = n.
C7_ResumeStepRule ==
  [][\A n \in SuspendSteps :
       (suspend(n, 0) /\ currentState # NULL)
         => /\ currentState \in alloc'
            /\ IF heap[currentState].childState = NULL
                 THEN /\ heap'[currentState].currentStep = n
                      /\ heap'[currentState].nextStep = 0
                 ELSE /\ heap'[currentState].currentStep = heap[currentState].currentStep
                      /\ heap'[currentState].nextStep = n]_vars

\* C7 as amended.  suspend(n), n # 0, on a current frame F:
\*  - F has no child: F's currentStep becomes n, its nextStep 0, and a matching
\*    begin called next returns n;
\*  - F has an outstanding child and is the root or not at FAILURE: currentStep
\*    is unchanged, nextStep = n, and a matching begin called next returns the
\*    old step;
\*  - F has an outstanding child, is below the root and is at FAILURE: the
\*    parent consumes F in the same call, F is deleted, the parent is at FAILURE.
\* No begin changes the currentStep or nextStep of a frame that stays on the
\* chain: a begin that creates no frame changes no frame, and one that creates
\* a frame under the current frame leaves the steps of that frame and of the
\* frames above it alone (the frames below it are discarded).  When an end
\* consumes a child that succeeded, the parent's currentStep becomes the
\* nextStep it had recorded and its nextStep 0.
\* (call'.op names the operation a step performs, call'.path its branches.)
C7_ResumeStep ==
  [][/\ \A n \in SuspendSteps :
          ((call'.op = "suspend" /\ currentState # NULL /\ suspend(n, 0))
             => LET F == currentState
                    name == heap[F].functionName
                IN IF heap[F].childState = NULL
                     THEN /\ F \in alloc'
                          /\ heap'[F].currentStep = n
                          /\ heap'[F].nextStep = 0
                          /\ beginReturns(Mem', name, 1) = n
                   ELSE IF heap[F].parentState # NULL /\ heap[F].currentStep = stepFailure
                     THEN /\ F \notin alloc'
                          /\ currentState' = heap[F].parentState
                          /\ heap'[currentState'].currentStep = stepFailure
                     ELSE /\ F \in alloc'
                          /\ heap'[F].currentStep = heap[F].currentStep
                          /\ heap'[F].nextStep = n
                          /\ beginReturns(Mem', name, 1) = heap[F].currentStep)
     /\ (call'.op = "begin"
           => IF {"root", "create"} \cap call'.path = {}
                THEN heap' = heap
                ELSE \A p \in Ancestors(currentState) :
                       /\ heap'[p].currentStep = heap[p].currentStep
                       /\ heap'[p].nextStep = heap[p].nextStep)
     /\ ((call'.op = "end" /\ "succeeded" \in call'.path)
           => /\ heap'[currentState'].currentStep = heap[currentState'].nextStep
              /\ heap'[currentState'].nextStep = 0)]_vars

\* C7 witness: a frame that suspended to step n while its child was outstanding
\* has consumed the child after it succeeded; it is at step n and a matching
\* begin returns n.
C7_Witness ==
  /\ call.op = "end" /\ "succeeded" \in call.path
  /\ heap[currentState].currentStep \in SuspendSteps
  /\ heap[currentState].nextStep = 0
  /\ beginReturns(Mem, heap[currentState].functionName, 1) = heap[currentState].currentStep

\* Frame p is on the chain before and after the step, for the same call, with
\* the same content in its four scratch slots.
slotsKept(p) ==
  /\ p \in Chain'
  /\ heap'[p].functionName = heap[p].functionName
  /\ heap'[p].parentState = heap[p].parentState
  /\ \A slot \in Slots : heap'[p][slot] = heap[p][slot]

\* A scratch slot of the frame holds a value other than the initial one.
written(frame) == \E slot \in Slots : frame[slot] # NewFrame[slot]

C9_ChildWithOtherNameReplaced ==
  [][\A g \in FunctionNames :
       (/\ begin(g, 1)
        /\ currentState # NULL
        /\ heap[currentState].childState # NULL
        /\ heap[heap[currentState].childState].functionName # g)
         => /\ currentState' # currentState
            /\ heap'[currentState'] =
                 [NewFrame EXCEPT !.functionName = g, !.currentStep = 1,
                                  !.parentState = currentState]
            /\ heap'[currentState].childState = currentState'
            /\ ret' = 1]_vars

\* C9 as amended: begin(g, s) called while the current frame F is not itself a
\* frame of g and has a child whose name differs from g deletes that child
\* (the fresh frame may take its cell); F's child becomes a fresh frame named
\* g with currentStep = s, nextStep = 0, delayUntil = 0 and zeroed scratch
\* slots, F is otherwise unchanged, the fresh frame is current and begin
\* returns s.  A begin of the abandoned function made from F after that
\* returns its first step, whatever step the abandoned frame had saved.
C9_AbandonedChildReplaced ==
  [][\A g \in FunctionNames :
       (/\ currentState # NULL
        /\ heap[currentState].functionName # g
        /\ heap[currentState].childState # NULL
        /\ heap[heap[currentState].childState].functionName # g
        /\ call'.op = "begin"
        /\ begin(g, 1))
         => LET F == currentState
                abandoned == heap[F].childState
            IN /\ currentState' \notin alloc \ {abandoned}
               /\ alloc' = (alloc \ {abandoned}) \cup {currentState'}
               /\ heap'[currentState'] =
                    [NewFrame EXCEPT !.functionName = g, !.currentStep = 1,
                                     !.parentState = F]
               /\ heap'[F] = [heap[F] EXCEPT !.childState = currentState']
               /\ ret' = 1
               /\ beginReturns([Mem' EXCEPT !.cur = F], heap[abandoned].functionName, 1) = 1]_vars

\* C9 witness: begin has just discarded the child of another nested call and
\* made a fresh frame at the first step current in its place.
C9_Witness ==
  /\ call.op = "begin" /\ {"delete", "create"} \subseteq call.path
  /\ ret = 1
  /\ heap[currentState] =
       [NewFrame EXCEPT !.functionName = heap[currentState].functionName,
                        !.currentStep = 1,
                        !.parentState = heap[currentState].parentState]
  /\ heap[currentState].parentState # NULL
  /\ heap[heap[currentState].parentState].childState = currentState

\* C10: init(), whatever frame is current and whatever descendants it has,
\* releases every frame of the chain from the root down and leaves the
\* engine empty.
C10_InitReleasesChain ==
  [][init => /\ currentState' = NULL
             /\ Chain \cap alloc' = {}]_vars

\* A terminal step: SUCCESS or FAILURE.
terminal(step) == step = stepSuccess \/ step = stepFailure

\* C11: a suspend or end made by a frame whose currentStep is SUCCESS or
\* FAILURE does not change that frame's currentStep to any other value: the
\* frame keeps its step unless it is deleted.
C11_TerminalStepKept ==
  [][(/\ call'.op \in {"suspend", "end"}
      /\ fault' = "none"
      /\ currentState # NULL
      /\ terminal(heap[currentState].currentStep)
      /\ currentState \in Chain')
       => heap'[currentState].currentStep = heap[currentState].currentStep]_vars

\* C12 as stated: suspend returns false if and only if the transition check it
\* ran consumed a failed child and set the ascended-to frame's step to FAILURE.
C12_FalseIffChildFailedNow ==
  [][(call'.op = "suspend" /\ fault' = "none")
       => (ret' = 0 <=> "failed" \in call'.path)]_vars

\* C12 as amended: suspend returns false if and only if the frame that is
\* current when it returns has currentStep = FAILURE, whether this call's
\* transition check set it or the frame was at FAILURE already; in
\* particular it returns false whenever its transition check consumed a
\* failed child.
C12_FalseIffCurrentFailed ==
  [][(call'.op = "suspend" /\ fault' = "none")
       => /\ ret' = 0 <=> heap'[currentState'].currentStep = stepFailure
          /\ "failed" \in call'.path => ret' = 0
          /\ ret' \in {0, 1}]_vars

\* C12 witness: suspend has just returned false although its transition check
\* consumed no child: the ascended-to frame was at FAILURE before the call.
C12_Witness ==
  /\ call.op = "suspend" /\ ret = 0
  /\ "failed" \notin call.path /\ "pending" \in call.path
  /\ heap[currentState].currentStep = stepFailure

\* The current frame has no child at a terminal step.
NoTerminalChild ==
  currentState # NULL
    => LET childState == heap[currentState].childState
       IN childState # NULL => ~terminal(heap[childState].currentStep)

\* C13: after every suspend or end call the current frame has no child whose
\* currentStep is SUCCESS or FAILURE: a frame that ascended at a terminal
\* step has been deleted and its parent's child link cleared.  After end(false)
\* by a child of the root, the root is current at FAILURE (what getStatus
\* returns), has no child, and the child's frame is released.
C13_TerminalChildConsumed ==
  [][(call'.op \in {"suspend", "end"} /\ fault' = "none")
       => /\ NoTerminalChild'
          /\ (/\ call'.op = "end" /\ ret' = 0
              /\ currentState # NULL
              /\ Depth(currentState) = 1)
               => /\ currentState' = heap[currentState].parentState
                  /\ heap'[currentState'].currentStep = stepFailure
                  /\ heap'[currentState'].childState = NULL
                  /\ currentState \notin alloc'
          /\ (currentState # NULL /\ heap[currentState].parentState # NULL)
               => IF currentState \in alloc'
                    THEN /\ ~terminal(heap'[currentState].currentStep)
                         /\ heap'[currentState'].childState = currentState
                    ELSE heap'[currentState'].childState = NULL]_vars

\* C13 witness: end(false) by a child of the root has returned; the root is
\* current at FAILURE without a child and the root's frame is the only one.
C13_Witness ==
  /\ call.op = "end" /\ ret = 0 /\ "failed" \in call.path
  /\ heap[currentState].parentState = NULL
  /\ heap[currentState].currentStep = stepFailure
  /\ heap[currentState].childState = NULL
  /\ alloc = {currentState}

\* C14: whenever the engine is not empty, the current frame is a live frame;
\* the frames its parent and child links lead to are live; exactly one of
\* them, the root, has no parent, and the parent links from the current frame
\* lead to it; for every frame F with child C, C.parentState = F, and every
\* frame with a parent is that parent's child; so the chain is one path
\* without a cycle, each frame having at most one child.
C14_ChainShape ==
  currentState # NULL
    => /\ currentState \in alloc
       /\ Reach(Mem) \subseteq alloc
       /\ Cardinality({p \in Chain : heap[p].parentState = NULL}) = 1
       /\ \E r \in Ancestors(currentState) : heap[r].parentState = NULL
       /\ \A p \in Chain :
            /\ heap[p].childState # NULL => heap[heap[p].childState].parentState = p
            /\ heap[p].parentState # NULL => heap[heap[p].parentState].childState = p
            /\ heap[p].childState # p /\ heap[p].parentState # p

\* C14 witness: a chain of three frames with the middle one current.
C14_Witness ==
  /\ currentState # NULL
  /\ Cardinality(Chain) = 3
  /\ Depth(currentState) = 1
  /\ heap[currentState].childState # NULL
  /\ call.op = "suspend"

\* C15: a suspend or end call by the current frame X ascends exactly one
\* level (the parent of X is current afterwards, or X itself if it is the
\* root) and creates no frame.  Of the frames that stay on the chain (all of
\* them, or those above X when the ascended-to frame consumes X), only X
\* and the ascended-to frame change: X at most in currentStep, nextStep and
\* delayUntil, the ascended-to frame at most in those and its child link;
\* names, parent links and scratch slots of all of them are unchanged.
C15_AscentFrameEffect ==
  [][(/\ currentState # NULL
      /\ \/ call'.op = "suspend" /\ \E n \in SuspendSteps, d \in Delays : suspend(n, d)
         \/ call'.op = "end" /\ \E status \in BOOLEAN : end(status))
       => LET X == currentState
              P == heap[X].parentState
              surviving == IF X \in alloc'
                             THEN Ancestors(X) \cup DownFrom(heap, X, MaxFrames)
                             ELSE Ancestors(X) \ {X}
          IN /\ currentState' = IF P = NULL THEN X ELSE P
             /\ alloc' \subseteq alloc
             /\ surviving \subseteq alloc'
             /\ \A p \in surviving :
                  /\ \A slot \in Slots : heap'[p][slot] = heap[p][slot]
                  /\ heap'[p].functionName = heap[p].functionName
                  /\ heap'[p].parentState = heap[p].parentState
                  /\ p \notin {X, currentState'} => heap'[p] = heap[p]
                  /\ p # currentState' => heap'[p].childState = heap[p].childState]_vars

\* C15 witness: a suspend by a frame with an outstanding child has ascended
\* from depth 2 to depth 1 on a chain of three frames.
C15_Witness ==
  /\ call.op = "suspend" /\ "pop" \in call.path
  /\ currentState # NULL
  /\ Depth(currentState) = 1
  /\ heap[currentState].childState # NULL
  /\ heap[heap[currentState].childState].currentStep \in SuspendSteps
  /\ Cardinality(Chain) = 3

\* C16: after any sequence of begin/suspend/end calls every frame that has
\* been allocated and not released lies on the chain: a child discarded by
\* begin or consumed by the transition check takes its descendants with it.
C16_NoFrameLeaked ==
  fault = "none" => alloc = Chain

\* C17: every frame the parent and child links lead to from currentState is
\* live, and no call has dereferenced a pointer to a deleted frame.
C17_NoUseAfterRelease ==
  /\ fault # "freed"
  /\ Reach(Mem) \subseteq alloc
  /\ \A p \in Chain : {heap[p].parentState, heap[p].childState} \ {NULL} \subseteq alloc

\* C17 witness: a transition check has deleted a finished child that had a
\* child of its own, and the frames of the chain are all live.
C17_Witness ==
  /\ call.op = "end" /\ {"pop", "succeeded"} \subseteq call.path
  /\ fault = "none"
  /\ currentState \in alloc
  /\ alloc # Chain
  /\ heap[currentState].childState = NULL

\* C18: on an empty engine suspend, end and the other operations complete
\* without dereferencing the null currentState, and leave the engine empty.
C18_EmptyEngineHarmless ==
  currentState = NULL => fault = "none"

\* C19: suspend(n, delay) with delay > 0, at any clock value, leaves the
\* ascended-to frame with a nonzero delayUntil.
C19_DelayNeverZero ==
  [][\A n \in SuspendSteps, d \in Delays \ {0} :
       (currentState # NULL /\ call'.op = "suspend" /\ suspend(n, d))
         => heap'[currentState'].delayUntil # 0]_vars

\* C20: a message built by add calls that all returned true is never rejected
\* by send as too long.
C20_LimitsAgree ==
  (call.op = "send" /\ Len(encodedMessage) > 0) => "toolong" \notin call.path

====
